---- MODULE Spec2Model ----
(***************************************************************************)
(* Model of blkcache/microbench_hashmap.cc: the HashMap interface and its  *)
(* two implementations, SimpleHashMap (one std::unordered_map under one    *)
(* port::RWMutex) and ScalableHashMap (a wrapper over ScalableHashTable,   *)
(* whose header is not among the sources: the table is modelled from the   *)
(* design document, as a stop-the-world resizing sharded table with a      *)
(* fixed shard count).  Client threads call Insert, Erase and Lookup       *)
(* concurrently.                                                           *)
(*                                                                         *)
(* pc of a thread: "idle" (between calls), "wait" (called, before the      *)
(* lock), "lk" (ScalableHashMap::Lookup holds the mutex pointer, before    *)
(* ReadLock), "cs" (lock held), "cs2" (lock held, SimpleHashMap::Erase     *)
(* has found its iterator), "rz" (table Insert is resizing: it takes every *)
(* shard lock, then rehashes shard by shard), "rh" (resize has unlinked a  *)
(* shard's entries and not yet rehomed them), "ret" (the call has          *)
(* returned, the caller holds the result).                                 *)
(***************************************************************************)
EXTENDS Integers, Sequences, FiniteSets, TLC

\* ------------------------------------------------------------------ bounds
\* Client threads of the SimpleHashMap run.
NThreads == 2
\* Largest key of the ScalableHashMap run.
MaxKey == 2

Values == {"a", "b"}
\* A default-constructed std::string: RunRead's `string s`, and the value of
\* the Node that Erase and Lookup build from the key alone.
EmptyStr == ""

\* The two runs of main(): the baseline with NThreads clients over two keys,
\* the sharded table with two clients over the keys 0..MaxKey.  Key 0 is
\* inserted with either value, every other key with "a".
ThreadsOf(i) == IF i = "simple" THEN 1..NThreads ELSE {1, 2}
KeysOf(i) == IF i = "simple" THEN {0, 1} ELSE 0..MaxKey
ValuesOf(k) == IF k = 0 THEN Values ELSE {"a"}

\* ------------------------------------------------- the benchmark's inputs
\* Width in bits of Key (int), scaled down from 32; random() returns a value
\* of one bit less and uint64_t has twice the width.
IntBits == 8
RAND_MAX == 2^(IntBits - 1) - 1
\* MicroBenchmark::max_key_, scaled down from 1024 * 1024.
max_key_ == 2
\* MicroBenchmark::sec_ (FLAGS_nsec), and the milliseconds of one second.
sec_ == 10
MsPerSec == 1000
\* The calls the workers issue in all before they only wait for their
\* deadlines.
MaxCalls == 2
\* The amounts by which the clock is seen to advance: the length of the run,
\* which takes a worker that has just begun to its deadline exactly, and
\* twice that, which takes it past the deadline.
TickSteps == {sec_ * MsPerSec, 2 * sec_ * MsPerSec}
\* The thread that runs main() and the MicroBenchmark constructor.
Main == 0
\* The worker threads StartThreads creates: the benchmark is run with two,
\* in every assignment of the three loops to them.
Workers == {1, 2}
Roles == {"write", "read", "erase"}

\* Conversion of an unsigned value to Key (int): modulo 2^IntBits, the upper
\* half read as negative.
ToInt(x) ==
  LET m == x % 2^IntBits IN IF m >= 2^(IntBits - 1) THEN m - 2^IntBits ELSE m
\* Mutant of the writers' key: the sum wraps at the width of random().
UnboundedKeyNarrow(r) == (r + max_key_) % 2^(IntBits - 1)
\* RunWrite and RunErase: the key random() + max_key_ as Insert and Erase
\* receive it.  RunRead: int k = random() % max_key_.
UnboundedKey(r) == ToInt(r + max_key_)
PrepopKey(r) == ToInt(r % max_key_)
\* The values of random() the benchmark runs are explored with.
RandomDraws == {0, RAND_MAX}
BenchKeys ==
  (0..max_key_) \cup {UnboundedKey(r) : r \in RandomDraws}
                \cup {PrepopKey(r) : r \in RandomDraws}

Threads == {Main} \cup Workers \cup ThreadsOf("simple") \cup ThreadsOf("scalable")
Keys == KeysOf("simple") \cup KeysOf("scalable") \cup BenchKeys

OpTypes == {"Insert", "Erase", "Lookup"}
NoOp == [type |-> "none", key |-> 0, val |-> EmptyStr]

\* Table configuration (construction-time parameters of the sharded table).
NShards == 2
InitSlots == 1
Shards == 0..(NShards - 1)
\* What Insert does with a key that is already present.  The design document
\* names the policies an implementer may fix ("keep_true": no-op reported as
\* success, "keep_false": no-op reported as failure, "overwrite"); the table
\* is modelled with the first, which is the baseline's.
Policy == "keep_true"

VARIABLES
  impl,      \* which HashMap implementation main() is benchmarking
  pc,        \* per thread: position inside the current call
  op,        \* per thread: the call in progress (type, key, val)
  ret,       \* per thread: the bool the call returned
  out,       \* per thread: the caller's Value object that Lookup's `val` points to
  it,        \* per thread: the iterator find() produced ({} is end())
  rwlock_,   \* SimpleHashMap::rwlock_: holders in write mode and in read mode
  map_,      \* SimpleHashMap::map_: the entries of the unordered_map
  table,     \* ScalableHashTable: per shard, its slot array of chains and live count
  locks_,    \* ScalableHashTable: per shard, its reader-writer lock
  mtx,       \* per thread: the shard whose lock the call selected (GetMutex)
  held,      \* per thread: how many shard locks a resize has taken so far
  moved,     \* per thread: how many shards its resize has rehashed so far
  carry,     \* per thread: the entries its resize has unlinked and not yet rehomed
  \* history variables, read only by the properties
  exp,       \* per thread: what the call in progress found when it was made
  absmap,    \* per key: the value a sequential map holds, calls applied in lock order
  snap,      \* what Lookups found when the resize in progress began to rehash
  expRet,    \* per thread: the result the sequential map gave the call
  \* the benchmark driver
  phase,     \* where the MicroBenchmark constructor is
  role,      \* per worker: the loop it runs (RunWrite, RunRead or RunErase)
  prepop_i,  \* Prepop's loop variable i
  now,       \* the clock NowInMillSec reads
  start,     \* per worker: the local `start` of its loop
  calls,     \* per kind of call: how many the workers have issued
  ninserts_, \* MicroBenchmark::ninserts_
  nreads_,   \* MicroBenchmark::nreads_
  nerases_,  \* MicroBenchmark::nerases_
  failed,    \* an assert(status) has failed
  rnd,       \* a value random() returned
  rkey       \* the key computed from it

mapVars == <<rwlock_, map_>>
tableVars == <<table, locks_, mtx, held, moved, carry>>
histVars == <<exp, absmap, snap, expRet>>
benchVars == <<phase, role, prepop_i, now, start, calls,
               ninserts_, nreads_, nerases_, failed, rnd, rkey>>
vars == <<impl, pc, op, ret, out, it, rwlock_, map_, table, locks_,
          mtx, held, moved, carry, exp, absmap, snap, expRet, benchVars>>

\* ------------------------------------------------------------ port::RWMutex
FreeLock == [w |-> {}, r |-> {}]
\* pthread_rwlock_wrlock succeeds when nobody holds the lock.
CanWriteLock(l) == l.w = {} /\ l.r = {}
\* pthread_rwlock_rdlock succeeds when no writer holds the lock.
CanReadLock(l) == l.w = {}
WriteLocked(l, t) == [l EXCEPT !.w = @ \cup {t}]
ReadLocked(l, t) == [l EXCEPT !.r = @ \cup {t}]
Unlocked(l, t) == [w |-> l.w \ {t}, r |-> l.r \ {t}]

\* ------------------------------------------------------ std::unordered_map
Entry(k, v) == [key |-> k, val |-> v]
\* map_.find(key): the entries with an equal key ({} models end()).
MapFind(m, k) == {e \in m : e.key = k}
\* Mutants of map_.insert: one adds the pair whatever the map holds, one
\* replaces the element with an equal key (map_[key] = val).
MapInsertAlways(m, k, v) == m \cup {Entry(k, v)}
MapInsertOverwrite(m, k, v) == (m \ MapFind(m, k)) \cup {Entry(k, v)}
\* map_.insert(make_pair(key, val)): the pair is added only when the map holds
\* no element with an equal key.
MapInsert(m, k, v) == IF MapFind(m, k) = {} THEN m \cup {Entry(k, v)} ELSE m
\* map_.erase(it)
MapErase(m, found) == m \ found

\* ------------------------------------------------------- ScalableHashTable
\* ScalableHashMap::Hash: std::hash<uint64_t>()(node.key_): the key converted
\* to uint64_t (a negative key wraps), on which std::hash is the identity.
Hash(k) == k % 2^(2 * IntBits)
\* ScalableHashMap::Equal: nodes are equal when their keys are.
Equal(n1, n2) == n1.key = n2.key
\* ScalableHashMap::Node
Node(k, v) == [key |-> k, val |-> v]

\* The table's entry: the node it was given and the cached hash of the node.
Cached(n) == [key |-> n.key, val |-> n.val, hash |-> Hash(n.key)]

\* Placement: shard = hash mod shard_count, then a slot of that shard's array.
ShardOf(h) == h % NShards
SlotOf(h, n) == ((h \div NShards) % n) + 1
EmptyTable ==
  [s \in Shards |-> [slots |-> [j \in 1..InitSlots |-> <<>>], live |-> 0]]

RECURSIVE Concat(_)
Concat(ss) == IF ss = <<>> THEN <<>> ELSE Head(ss) \o Concat(Tail(ss))
\* Every entry reachable from a shard's chains, and from the whole table.
ShardNodes(sh) == Concat(sh.slots)
TableNodes(tb) == Concat([i \in 1..NShards |-> ShardNodes(tb[i - 1])])

\* The chain a key's hash selects under the current slot count of its shard.
ChainOf(tb, k) ==
  LET sh == tb[ShardOf(Hash(k))] IN sh.slots[SlotOf(Hash(k), Len(sh.slots))]
\* Chain walk: cached hash first, then key equality.
ChainFind(chain, k) ==
  {i \in 1..Len(chain) :
     chain[i].hash = Hash(k) /\ Equal(chain[i], Node(k, EmptyStr))}
\* Table::Find under the caller's lock.
TableFind(tb, k) == ChainFind(ChainOf(tb, k), k) # {}

\* Shard-level Insert, under the shard's exclusive lock.
TableInsert(tb, k, v, pol) ==
  LET s == ShardOf(Hash(k))
      j == SlotOf(Hash(k), Len(tb[s].slots))
      chain == tb[s].slots[j]
      hits == ChainFind(chain, k)
  IN IF hits = {}
     THEN [tb EXCEPT ![s].slots[j] = Append(chain, Cached(Node(k, v))),
                     ![s].live = @ + 1]
     ELSE IF pol = "overwrite"
     THEN [tb EXCEPT ![s].slots[j] =
             [i \in 1..Len(chain) |->
                IF i \in hits THEN [chain[i] EXCEPT !.val = v] ELSE chain[i]]]
     ELSE tb
\* What Insert returns: true for a new key; for a present key as the Policy says.
TableInsertRet(tb, k, pol) == (~TableFind(tb, k)) \/ pol # "keep_false"

\* Shard-level Erase, under the shard's exclusive lock: unlink the match.
TableErase(tb, k) ==
  LET s == ShardOf(Hash(k))
      j == SlotOf(Hash(k), Len(tb[s].slots))
      chain == tb[s].slots[j]
      hits == ChainFind(chain, k)
  IN IF hits = {} THEN tb
     ELSE LET i == CHOOSE x \in hits : \A y \in hits : x <= y IN
          [tb EXCEPT ![s].slots[j] =
                       SubSeq(chain, 1, i - 1) \o SubSeq(chain, i + 1, Len(chain)),
                     ![s].live = @ - 1]

RECURSIVE SumLive(_, _)
SumLive(tb, n) == IF n = 0 THEN 0 ELSE tb[n - 1].live + SumLive(tb, n - 1)
RECURSIVE SumSlots(_, _)
SumSlots(tb, n) == IF n = 0 THEN 0 ELSE Len(tb[n - 1].slots) + SumSlots(tb, n - 1)
\* Resize trigger: live entries over total slots exceeds 0.75.
NeedResize(tb) == 4 * SumLive(tb, NShards) > 3 * SumSlots(tb, NShards)

\* Resize of one shard, first half: a slot array of n empty chains replaces
\* the shard's array.
GrownShard(sh, n) == [slots |-> [j \in 1..n |-> <<>>], live |-> sh.live]
\* Mutant of the rehash: every entry goes to the slot of its old index.
RehomedInPlace(sh, es) ==
  [slots |-> [j \in 1..Len(sh.slots) |->
                SelectSeq(es, LAMBDA e : SlotOf(e.hash, Len(sh.slots) \div 2) = j)],
   live |-> sh.live]
\* Resize of one shard, second half: every unlinked entry is linked into the
\* slot its cached hash selects in the new array.
Rehomed(sh, es) ==
  [slots |-> [j \in 1..Len(sh.slots) |->
                SelectSeq(es, LAMBDA e : SlotOf(e.hash, Len(sh.slots)) = j)],
   live |-> sh.live]

\* ---------------------------------------------------- views of either map
\* The live entries of the table: those in its chains and those a resize has
\* in hand.
LiveNodes ==
  TableNodes(table) \o Concat([i \in 1..Cardinality(Threads) |-> carry[i - 1]])
\* The live entries of the map under test: the elements of map_, or the
\* nodes of the table.
Live == IF impl = "simple" THEN map_ ELSE LiveNodes
\* The number of entries of `live` holding key k, and the values they hold.
CountOf(live, k) ==
  IF impl = "simple"
  THEN Cardinality(MapFind(live, k))
  ELSE Len(SelectSeq(live, LAMBDA e : e.key = k))
ValsOf(live, k) ==
  IF impl = "simple"
  THEN {e.val : e \in MapFind(live, k)}
  ELSE {live[i].val : i \in {x \in 1..Len(live) : live[x].key = k}}
\* The values stored under key k, and the number of entries holding k.
Stored(k) == ValsOf(Live, k)
KeyCount(k) == CountOf(Live, k)
\* The keys for which a Lookup succeeds, each with the value stored for it.
Observable ==
  IF impl = "simple"
  THEN {<<e.key, e.val>> : e \in map_}
  ELSE UNION {{<<k, ChainOf(table, k)[i].val>> :
                 i \in ChainFind(ChainOf(table, k), k)} : k \in Keys}
LiveCount ==
  IF impl = "simple" THEN Cardinality(map_) ELSE SumLive(table, NShards)

\* -------------------------------------------------------- history helpers
\* A call that has not yet run its body.
Pending(u) == pc[u] \in {"wait", "lk", "cs", "cs2"}
PendingOn(u, k, ty) == Pending(u) /\ op[u].key = k /\ op[u].type = ty

\* The sequential map the calls are compared with.
SeqInsert(m, k, v, pol) ==
  IF m[k] = EmptyStr \/ pol = "overwrite" THEN [m EXCEPT ![k] = v] ELSE m
SeqInsertRet(m, k, pol) == m[k] = EmptyStr \/ pol # "keep_false"
SeqErase(m, k) == [m EXCEPT ![k] = EmptyStr]
SeqFind(m, k) == m[k] # EmptyStr

\* What a call made now on key k finds.  A Lookup: the value v an Insert that
\* has returned left stored, with no Erase of k on its way; or "absent", with
\* no Insert of k on its way.  An Insert: "fresh" when k is absent, no Erase
\* of k is on its way and every Insert of k on its way is fresh too (they all
\* run concurrently).
FoundAtCall(ty, k) ==
  LET live == Live IN
  CASE ty = "Lookup" ->
         IF /\ ~\E w \in Threads : PendingOn(w, k, "Erase")
            /\ ~\E w \in Threads : pc[w] \in {"rz", "rh"} /\ op[w].key = k
            /\ CountOf(live, k) = 1
         THEN CHOOSE v \in ValsOf(live, k) : TRUE
         ELSE IF /\ ~\E w \in Threads : PendingOn(w, k, "Insert")
                 /\ CountOf(live, k) = 0
         THEN "absent" ELSE "none"
    [] ty = "Insert" ->
         IF /\ ~\E w \in Threads : PendingOn(w, k, "Erase")
            /\ \A w \in Threads : PendingOn(w, k, "Insert") => exp[w] = "fresh"
            /\ CountOf(live, k) = 0
         THEN "fresh" ELSE "none"
    [] OTHER -> "none"

\* Thread t calls operation ty on key k: calls on k that relied on what the
\* new call may change rely on it no longer.
HistCall(t, ty, k) ==
  LET found == FoundAtCall(ty, k) IN
  /\ exp' = [u \in Threads |->
       IF u = t THEN found
       ELSE IF op[u].key # k THEN exp[u]
       ELSE IF op[u].type = "Lookup" /\ Pending(u)
       THEN IF (ty = "Erase" /\ exp[u] \in Values)
               \/ (ty = "Insert" /\ exp[u] = "absent")
            THEN "none" ELSE exp[u]
       ELSE IF op[u].type = "Insert" /\ exp[u] = "fresh"
       THEN IF ty = "Erase" \/ (ty = "Insert" /\ found # "fresh")
            THEN "none" ELSE exp[u]
       ELSE exp[u]]
  /\ UNCHANGED <<absmap, snap, expRet>>

\* Thread t takes the lock its call runs under: the sequential map applies it.
HistAcquire(t) ==
  LET k == op[t].key IN
  /\ absmap' = CASE op[t].type = "Insert" -> SeqInsert(absmap, k, op[t].val, Policy)
                 [] op[t].type = "Erase" -> SeqErase(absmap, k)
                 [] OTHER -> absmap
  /\ expRet' = [expRet EXCEPT ![t] =
                  CASE op[t].type = "Insert" -> SeqInsertRet(absmap, k, Policy)
                    [] OTHER -> SeqFind(absmap, k)]
  /\ UNCHANGED <<exp, snap>>

\* Thread t's caller moves on: the Inserts that ran concurrently with t's
\* fresh Insert no longer have their whole group in view.
HistReturn(t) ==
  /\ exp' = [u \in Threads |->
               IF u = t THEN "none"
               ELSE IF exp[t] = "fresh" /\ exp[u] = "fresh" /\ op[u].key = op[t].key
               THEN "none" ELSE exp[u]]
  /\ expRet' = [expRet EXCEPT ![t] = FALSE]
  /\ UNCHANGED <<absmap, snap>>

\* ------------------------------------------------------------------- calls
\* A client thread calls impl_->Insert / Erase / Lookup.
Call(t) ==
  /\ pc[t] = "idle"
  /\ \E ty \in OpTypes, k \in KeysOf(impl) :
     \E v \in (IF ty = "Insert" THEN ValuesOf(k) ELSE {EmptyStr}) :
       /\ op' = [op EXCEPT ![t] =
                   [type |-> ty, key |-> k, val |-> v]]
       /\ HistCall(t, ty, k)
  /\ pc' = [pc EXCEPT ![t] = "wait"]
  /\ out' = [out EXCEPT ![t] = EmptyStr]
  /\ UNCHANGED <<benchVars, impl, ret, it, mapVars, tableVars>>

\* The call has returned; its caller drops the result and moves on.
Return(t) ==
  /\ pc[t] = "ret"
  /\ pc' = [pc EXCEPT ![t] = "idle"]
  /\ op' = [op EXCEPT ![t] = NoOp]
  /\ ret' = [ret EXCEPT ![t] = FALSE]
  /\ out' = [out EXCEPT ![t] = EmptyStr]
  /\ HistReturn(t)
  /\ UNCHANGED <<benchVars, impl, it, mapVars, tableVars>>

\* ----------------------------------------------------------- SimpleHashMap
\* Mutant of Insert's lock: a ReadLock where the WriteLock belongs.
SimpleInsertLockShared(t) ==
  /\ impl = "simple" /\ pc[t] = "wait" /\ op[t].type = "Insert"
  /\ CanReadLock(rwlock_)
  /\ rwlock_' = ReadLocked(rwlock_, t)
  /\ pc' = [pc EXCEPT ![t] = "cs"]
  /\ HistAcquire(t)
  /\ UNCHANGED <<benchVars, impl, op, ret, out, it, map_, tableVars>>

\* Insert: WriteLock _(&rwlock_);
SimpleInsertLock(t) ==
  /\ impl = "simple" /\ pc[t] = "wait" /\ op[t].type = "Insert"
  /\ CanWriteLock(rwlock_)
  /\ rwlock_' = WriteLocked(rwlock_, t)
  /\ pc' = [pc EXCEPT ![t] = "cs"]
  /\ HistAcquire(t)
  /\ UNCHANGED <<benchVars, impl, op, ret, out, it, map_, tableVars>>

\* Insert: map_.insert(make_pair(key, val)); return true;  and the guard's unlock.
SimpleInsertStore(t) ==
  /\ impl = "simple" /\ pc[t] = "cs" /\ op[t].type = "Insert"
  /\ map_' = MapInsert(map_, op[t].key, op[t].val)
  /\ ret' = [ret EXCEPT ![t] = TRUE]
  /\ rwlock_' = Unlocked(rwlock_, t)
  /\ pc' = [pc EXCEPT ![t] = "ret"]
  /\ UNCHANGED <<benchVars, impl, op, out, it, tableVars, histVars>>

\* Erase: WriteLock _(&rwlock_);
SimpleEraseLock(t) ==
  /\ impl = "simple" /\ pc[t] = "wait" /\ op[t].type = "Erase"
  /\ CanWriteLock(rwlock_)
  /\ rwlock_' = WriteLocked(rwlock_, t)
  /\ pc' = [pc EXCEPT ![t] = "cs"]
  /\ HistAcquire(t)
  /\ UNCHANGED <<benchVars, impl, op, ret, out, it, map_, tableVars>>

\* Mutant of Erase's early return: the lock is not released on that path.
SimpleEraseFindKeepLock(t) ==
  /\ impl = "simple" /\ pc[t] = "cs" /\ op[t].type = "Erase"
  /\ LET found == MapFind(map_, op[t].key) IN
       IF found = {}
       THEN /\ ret' = [ret EXCEPT ![t] = FALSE]
            /\ pc' = [pc EXCEPT ![t] = "ret"]
            /\ UNCHANGED <<it, rwlock_>>
       ELSE /\ it' = [it EXCEPT ![t] = found]
            /\ pc' = [pc EXCEPT ![t] = "cs2"]
            /\ UNCHANGED <<ret, rwlock_>>
  /\ UNCHANGED <<benchVars, impl, op, out, map_, tableVars, histVars>>

\* Mutant of Erase's early return: `return true` for an absent key.
SimpleEraseFindTrue(t) ==
  /\ impl = "simple" /\ pc[t] = "cs" /\ op[t].type = "Erase"
  /\ LET found == MapFind(map_, op[t].key) IN
       IF found = {}
       THEN /\ ret' = [ret EXCEPT ![t] = TRUE]
            /\ rwlock_' = Unlocked(rwlock_, t)
            /\ pc' = [pc EXCEPT ![t] = "ret"]
            /\ UNCHANGED it
       ELSE /\ it' = [it EXCEPT ![t] = found]
            /\ pc' = [pc EXCEPT ![t] = "cs2"]
            /\ UNCHANGED <<ret, rwlock_>>
  /\ UNCHANGED <<benchVars, impl, op, out, map_, tableVars, histVars>>

\* Erase: auto it = map_.find(key); if (it == map_.end()) return false;
SimpleEraseFind(t) ==
  /\ impl = "simple" /\ pc[t] = "cs" /\ op[t].type = "Erase"
  /\ LET found == MapFind(map_, op[t].key) IN
       IF found = {}
       THEN /\ ret' = [ret EXCEPT ![t] = FALSE]
            /\ rwlock_' = Unlocked(rwlock_, t)
            /\ pc' = [pc EXCEPT ![t] = "ret"]
            /\ UNCHANGED it
       ELSE /\ it' = [it EXCEPT ![t] = found]
            /\ pc' = [pc EXCEPT ![t] = "cs2"]
            /\ UNCHANGED <<ret, rwlock_>>
  /\ UNCHANGED <<benchVars, impl, op, out, map_, tableVars, histVars>>

\* Mutant of Erase's tail: `return true` without map_.erase(it).
SimpleEraseItKeep(t) ==
  /\ impl = "simple" /\ pc[t] = "cs2" /\ op[t].type = "Erase"
  /\ ret' = [ret EXCEPT ![t] = TRUE]
  /\ it' = [it EXCEPT ![t] = {}]
  /\ rwlock_' = Unlocked(rwlock_, t)
  /\ pc' = [pc EXCEPT ![t] = "ret"]
  /\ UNCHANGED <<benchVars, impl, op, out, map_, tableVars, histVars>>

\* Erase: map_.erase(it); return true;  and the guard's unlock.
SimpleEraseIt(t) ==
  /\ impl = "simple" /\ pc[t] = "cs2" /\ op[t].type = "Erase"
  /\ map_' = MapErase(map_, it[t])
  /\ ret' = [ret EXCEPT ![t] = TRUE]
  /\ it' = [it EXCEPT ![t] = {}]
  /\ rwlock_' = Unlocked(rwlock_, t)
  /\ pc' = [pc EXCEPT ![t] = "ret"]
  /\ UNCHANGED <<benchVars, impl, op, out, tableVars, histVars>>

\* Mutant of Lookup's lock: no ReadLock is taken.
SimpleLookupNoLock(t) ==
  /\ impl = "simple" /\ pc[t] = "wait" /\ op[t].type = "Lookup"
  /\ pc' = [pc EXCEPT ![t] = "cs"]
  /\ HistAcquire(t)
  /\ UNCHANGED <<benchVars, impl, op, ret, out, it, mapVars, tableVars>>

\* Lookup: ReadLock _(&rwlock_);
SimpleLookupLock(t) ==
  /\ impl = "simple" /\ pc[t] = "wait" /\ op[t].type = "Lookup"
  /\ CanReadLock(rwlock_)
  /\ rwlock_' = ReadLocked(rwlock_, t)
  /\ pc' = [pc EXCEPT ![t] = "cs"]
  /\ HistAcquire(t)
  /\ UNCHANGED <<benchVars, impl, op, ret, out, it, map_, tableVars>>

\* Lookup: return map_.find(key) != map_.end();  (`val` is never written)
SimpleLookupFind(t) ==
  /\ impl = "simple" /\ pc[t] = "cs" /\ op[t].type = "Lookup"
  /\ ret' = [ret EXCEPT ![t] = MapFind(map_, op[t].key) # {}]
  /\ rwlock_' = Unlocked(rwlock_, t)
  /\ pc' = [pc EXCEPT ![t] = "ret"]
  /\ UNCHANGED <<benchVars, impl, op, out, it, map_, tableVars, histVars>>

\* --------------------------------------------------------- ScalableHashMap
\* Insert: Node n(key, val); impl_.Insert(n) selects the shard by hash and
\* takes its exclusive lock.
ScalInsertLock(t) ==
  /\ impl = "scalable" /\ pc[t] = "wait" /\ op[t].type = "Insert"
  /\ LET s == ShardOf(Hash(op[t].key)) IN
       /\ CanWriteLock(locks_[s])
       /\ locks_' = [locks_ EXCEPT ![s] = WriteLocked(@, t)]
       /\ mtx' = [mtx EXCEPT ![t] = s]
  /\ pc' = [pc EXCEPT ![t] = "cs"]
  /\ HistAcquire(t)
  /\ UNCHANGED <<benchVars, impl, op, ret, out, it, mapVars, table, held, moved, carry>>

\* Insert: the chain insert under the lock, the unlock, and the resize check
\* that follows an Insert that added an entry.
ScalInsertBody(t) ==
  /\ impl = "scalable" /\ pc[t] = "cs" /\ op[t].type = "Insert"
  /\ LET k == op[t].key
         r == TableInsertRet(table, k, Policy)
         added == ~TableFind(table, k)
         tb == TableInsert(table, k, op[t].val, Policy)
     IN /\ table' = tb
        /\ ret' = [ret EXCEPT ![t] = r]
        /\ pc' = [pc EXCEPT ![t] = IF added /\ NeedResize(tb) THEN "rz" ELSE "ret"]
        /\ locks_' = [locks_ EXCEPT ![mtx[t]] = Unlocked(@, t)]
  /\ mtx' = [mtx EXCEPT ![t] = 0]
  /\ UNCHANGED <<benchVars, impl, op, out, it, mapVars, held, moved, carry, histVars>>

\* Resize, stop-the-world: take every shard's exclusive lock in ascending
\* shard order.
ResizeLock(t) ==
  /\ impl = "scalable" /\ pc[t] = "rz" /\ held[t] < NShards
  /\ CanWriteLock(locks_[held[t]])
  /\ locks_' = [locks_ EXCEPT ![held[t]] = WriteLocked(@, t)]
  /\ held' = [held EXCEPT ![t] = @ + 1]
  /\ UNCHANGED <<benchVars, impl, pc, op, ret, out, it, mapVars, table, mtx, moved, carry, histVars>>

\* Resize: with every lock held and the load factor still over the threshold,
\* the next shard gets its doubled slot array and its entries are unlinked.
ResizeDetach(t) ==
  /\ impl = "scalable" /\ pc[t] = "rz" /\ held[t] = NShards
  /\ moved[t] < NShards
  /\ moved[t] = 0 => NeedResize(table)
  /\ carry' = [carry EXCEPT ![t] = ShardNodes(table[moved[t]])]
  /\ table' = [table EXCEPT ![moved[t]] = GrownShard(@, 2 * Len(@.slots))]
  /\ snap' = IF moved[t] = 0 THEN Observable ELSE snap
  /\ pc' = [pc EXCEPT ![t] = "rh"]
  /\ UNCHANGED <<benchVars, impl, op, ret, out, it, mapVars, locks_, mtx, held, moved,
                 exp, absmap, expRet>>

\* Resize: the unlinked entries are rehomed in the shard's new slot array.
ResizeRehome(t) ==
  /\ impl = "scalable" /\ pc[t] = "rh"
  /\ table' = [table EXCEPT ![moved[t]] = Rehomed(@, carry[t])]
  /\ carry' = [carry EXCEPT ![t] = <<>>]
  /\ moved' = [moved EXCEPT ![t] = @ + 1]
  /\ pc' = [pc EXCEPT ![t] = "rz"]
  /\ UNCHANGED <<benchVars, impl, op, ret, out, it, mapVars, locks_, mtx, held, histVars>>

\* Resize: every shard is rehashed, or none needed to be; every lock is
\* released and Insert returns.
ResizeEnd(t) ==
  /\ impl = "scalable" /\ pc[t] = "rz" /\ held[t] = NShards
  /\ moved[t] = NShards \/ (moved[t] = 0 /\ ~NeedResize(table))
  /\ locks_' = [s \in Shards |-> Unlocked(locks_[s], t)]
  /\ held' = [held EXCEPT ![t] = 0]
  /\ moved' = [moved EXCEPT ![t] = 0]
  /\ snap' = {}
  /\ pc' = [pc EXCEPT ![t] = "ret"]
  /\ UNCHANGED <<benchVars, impl, op, ret, out, it, mapVars, table, mtx, carry,
                 exp, absmap, expRet>>

\* Erase: Node n(key, string()); impl_.Erase(n, nullptr) selects the shard and
\* takes its exclusive lock.
ScalEraseLock(t) ==
  /\ impl = "scalable" /\ pc[t] = "wait" /\ op[t].type = "Erase"
  /\ LET s == ShardOf(Hash(op[t].key)) IN
       /\ CanWriteLock(locks_[s])
       /\ locks_' = [locks_ EXCEPT ![s] = WriteLocked(@, t)]
       /\ mtx' = [mtx EXCEPT ![t] = s]
  /\ pc' = [pc EXCEPT ![t] = "cs"]
  /\ HistAcquire(t)
  /\ UNCHANGED <<benchVars, impl, op, ret, out, it, mapVars, table, held, moved, carry>>

\* Erase: unlink the entry if the chain holds it; true iff one was removed.
ScalEraseBody(t) ==
  /\ impl = "scalable" /\ pc[t] = "cs" /\ op[t].type = "Erase"
  /\ table' = TableErase(table, op[t].key)
  /\ ret' = [ret EXCEPT ![t] = TableFind(table, op[t].key)]
  /\ locks_' = [locks_ EXCEPT ![mtx[t]] = Unlocked(@, t)]
  /\ mtx' = [mtx EXCEPT ![t] = 0]
  /\ pc' = [pc EXCEPT ![t] = "ret"]
  /\ UNCHANGED <<benchVars, impl, op, out, it, mapVars, held, moved, carry, histVars>>

\* Mutant of Lookup's GetMutex: the mutex of the first shard, whatever the key.
ScalLookupGetMutexFirst(t) ==
  /\ impl = "scalable" /\ pc[t] = "wait" /\ op[t].type = "Lookup"
  /\ mtx' = [mtx EXCEPT ![t] = 0]
  /\ pc' = [pc EXCEPT ![t] = "lk"]
  /\ UNCHANGED <<benchVars, impl, op, ret, out, it, mapVars, table, locks_, held, moved, carry, histVars>>

\* Lookup: Node n(key, string()); impl_.GetMutex(n)
ScalLookupGetMutex(t) ==
  /\ impl = "scalable" /\ pc[t] = "wait" /\ op[t].type = "Lookup"
  /\ mtx' = [mtx EXCEPT ![t] = ShardOf(Hash(op[t].key))]
  /\ pc' = [pc EXCEPT ![t] = "lk"]
  /\ UNCHANGED <<benchVars, impl, op, ret, out, it, mapVars, table, locks_, held, moved, carry, histVars>>

\* Mutant of Lookup's lock: GetMutex's result is dropped, no ReadLock taken.
ScalLookupNoLock(t) ==
  /\ impl = "scalable" /\ pc[t] = "lk" /\ op[t].type = "Lookup"
  /\ pc' = [pc EXCEPT ![t] = "cs"]
  /\ HistAcquire(t)
  /\ UNCHANGED <<benchVars, impl, op, ret, out, it, mapVars, tableVars>>

\* Lookup: ReadLock _(...) on the mutex GetMutex returned.
ScalLookupLock(t) ==
  /\ impl = "scalable" /\ pc[t] = "lk" /\ op[t].type = "Lookup"
  /\ CanReadLock(locks_[mtx[t]])
  /\ locks_' = [locks_ EXCEPT ![mtx[t]] = ReadLocked(@, t)]
  /\ pc' = [pc EXCEPT ![t] = "cs"]
  /\ HistAcquire(t)
  /\ UNCHANGED <<benchVars, impl, op, ret, out, it, mapVars, table, mtx, held, moved, carry>>

\* Lookup: return impl_.Find(n, nullptr);  (`val` is never written) and the
\* guard's unlock.
ScalLookupFind(t) ==
  /\ impl = "scalable" /\ pc[t] = "cs" /\ op[t].type = "Lookup"
  /\ ret' = [ret EXCEPT ![t] = TableFind(table, op[t].key)]
  /\ locks_' = [locks_ EXCEPT ![mtx[t]] = Unlocked(@, t)]
  /\ mtx' = [mtx EXCEPT ![t] = 0]
  /\ pc' = [pc EXCEPT ![t] = "ret"]
  /\ UNCHANGED <<benchVars, impl, op, out, it, mapVars, table, held, moved, carry, histVars>>

\* ----------------------------------------------------------- specification
\* No benchmark is running: the driver's variables at rest.
BenchIdle ==
  /\ phase = "none"
  /\ role = [t \in Workers |-> "write"]
  /\ prepop_i = 0
  /\ now = 0
  /\ start = [t \in Workers |-> 0]
  /\ calls = [ty \in OpTypes |-> 0]
  /\ ninserts_ = 0 /\ nreads_ = 0 /\ nerases_ = 0
  /\ failed = FALSE
  /\ rnd = 0 /\ rkey = 0

\* main() benchmarks a fresh SimpleHashMap, then a fresh ScalableHashMap.
Init ==
  /\ impl \in {"simple", "scalable"}
  /\ pc = [t \in Threads |-> "idle"]
  /\ op = [t \in Threads |-> NoOp]
  /\ ret = [t \in Threads |-> FALSE]
  /\ out = [t \in Threads |-> EmptyStr]
  /\ it = [t \in Threads |-> {}]
  /\ rwlock_ = FreeLock
  /\ map_ = {}
  /\ table = EmptyTable
  /\ locks_ = [s \in Shards |-> FreeLock]
  /\ mtx = [t \in Threads |-> 0]
  /\ held = [t \in Threads |-> 0]
  /\ moved = [t \in Threads |-> 0]
  /\ carry = [t \in Threads |-> <<>>]
  /\ snap = {}
  /\ exp = [t \in Threads |-> "none"]
  /\ absmap = [k \in Keys |-> EmptyStr]
  /\ expRet = [t \in Threads |-> FALSE]
  /\ BenchIdle

Next ==
  \/ \E t \in ThreadsOf(impl) : Call(t)
  \/ \E t \in ThreadsOf(impl) : Return(t)
  \/ \E t \in ThreadsOf(impl) : SimpleInsertLock(t)
  \/ \E t \in ThreadsOf(impl) : SimpleInsertStore(t)
  \/ \E t \in ThreadsOf(impl) : SimpleEraseLock(t)
  \/ \E t \in ThreadsOf(impl) : SimpleEraseFind(t)
  \/ \E t \in ThreadsOf(impl) : SimpleEraseIt(t)
  \/ \E t \in ThreadsOf(impl) : SimpleLookupLock(t)
  \/ \E t \in ThreadsOf(impl) : SimpleLookupFind(t)
  \/ \E t \in ThreadsOf(impl) : ScalInsertLock(t)
  \/ \E t \in ThreadsOf(impl) : ScalInsertBody(t)
  \/ \E t \in ThreadsOf(impl) : ResizeLock(t)
  \/ \E t \in ThreadsOf(impl) : ResizeDetach(t)
  \/ \E t \in ThreadsOf(impl) : ResizeRehome(t)
  \/ \E t \in ThreadsOf(impl) : ResizeEnd(t)
  \/ \E t \in ThreadsOf(impl) : ScalEraseLock(t)
  \/ \E t \in ThreadsOf(impl) : ScalEraseBody(t)
  \/ \E t \in ThreadsOf(impl) : ScalLookupGetMutex(t)
  \/ \E t \in ThreadsOf(impl) : ScalLookupLock(t)
  \/ \E t \in ThreadsOf(impl) : ScalLookupFind(t)

Spec == Init /\ [][Next]_vars

\* ------------------------------------------------- the keys of the workers
\* Every value random() can return, and the key each kind of thread makes of
\* it.
KeyInit ==
  /\ impl \in {"simple", "scalable"}
  /\ pc = [t \in Threads |-> "idle"]
  /\ op = [t \in Threads |-> NoOp]
  /\ ret = [t \in Threads |-> FALSE]
  /\ out = [t \in Threads |-> EmptyStr]
  /\ it = [t \in Threads |-> {}]
  /\ rwlock_ = FreeLock
  /\ map_ = {}
  /\ table = EmptyTable
  /\ locks_ = [s \in Shards |-> FreeLock]
  /\ mtx = [t \in Threads |-> 0]
  /\ held = [t \in Threads |-> 0]
  /\ moved = [t \in Threads |-> 0]
  /\ carry = [t \in Threads |-> <<>>]
  /\ snap = {}
  /\ exp = [t \in Threads |-> "none"]
  /\ absmap = [k \in Keys |-> EmptyStr]
  /\ expRet = [t \in Threads |-> FALSE]
  /\ phase = "none"
  /\ role = [t \in Workers |-> "write"]
  /\ prepop_i = 0
  /\ now = 0
  /\ start = [t \in Workers |-> 0]
  /\ calls = [ty \in OpTypes |-> 0]
  /\ ninserts_ = 0 /\ nreads_ = 0 /\ nerases_ = 0
  /\ failed = FALSE
  /\ rnd \in 0..RAND_MAX
  /\ rkey = 0

keyVars == <<impl, pc, op, ret, out, it, mapVars, tableVars, histVars,
             role, prepop_i, now, start, calls, ninserts_, nreads_, nerases_,
             failed, rnd>>

\* RunWrite, RunErase: the argument random() + max_key_ bound to const int&.
KeyUnbounded ==
  /\ phase = "none"
  /\ rkey' = UnboundedKey(rnd)
  /\ phase' = "unbounded"
  /\ UNCHANGED keyVars

\* RunRead: int k = random() % max_key_
KeyRead ==
  /\ phase = "none"
  /\ rkey' = PrepopKey(rnd)
  /\ phase' = "read"
  /\ UNCHANGED keyVars

\* Prepop: the argument i, for i < max_key_, bound to const int&.
KeyPrepop ==
  /\ phase = "none" /\ rnd < max_key_
  /\ rkey' = ToInt(rnd)
  /\ phase' = "prepop"
  /\ UNCHANGED keyVars

KeyNext == KeyUnbounded \/ KeyRead \/ KeyPrepop

KeySpec == KeyInit /\ [][KeyNext]_vars

\* -------------------------------------------------------- MicroBenchmark
\* The state of a thread and of the maps that the driver does not touch when
\* it issues a call or takes its result.
callVars == <<impl, ret, it, mapVars, tableVars, histVars>>

\* Arithmetic in uint64_t: modulo 2^(2 * IntBits).
Uint64(x) == x % 2^(2 * IntBits)
\* Timedout(start): NowInMillSec() - start > sec_ * 1000, in uint64_t: a clock
\* reading below `start` wraps to a large difference.
Timedout(t) == Uint64(now - start[t]) > sec_ * MsPerSec

\* The workers may issue another call.
MayCall == calls["Insert"] + calls["Lookup"] + calls["Erase"] < MaxCalls

\* The call has returned and its result is used: the locals of the loop body
\* go out of scope.
Forget(t) ==
  /\ op' = [op EXCEPT ![t] = NoOp]
  /\ ret' = [ret EXCEPT ![t] = FALSE]
  /\ out' = [out EXCEPT ![t] = EmptyStr]
  /\ expRet' = [expRet EXCEPT ![t] = FALSE]
  /\ pc' = [pc EXCEPT ![t] = "idle"]

\* What the driver leaves alone when it uses the result of a call.
doneVars == <<impl, it, mapVars, tableVars, exp, absmap, snap>>

\* Thread t calls impl_->Insert / Erase / Lookup.
Issue(t, ty, k, v) ==
  /\ op' = [op EXCEPT ![t] = [type |-> ty, key |-> k, val |-> v]]
  /\ pc' = [pc EXCEPT ![t] = "wait"]
  /\ out' = [out EXCEPT ![t] = EmptyStr]

\* Prepop: for (size_t i = 0; i < max_key_; ++i) impl_->Insert(i, ...)
PrepopInsert ==
  /\ phase = "prepop" /\ ~failed /\ pc[Main] = "idle"
  /\ prepop_i < max_key_
  /\ Issue(Main, "Insert", ToInt(prepop_i), "a")
  /\ UNCHANGED <<callVars, benchVars>>

\* Prepop: bool status = ...; assert(status); ++i
PrepopAssert ==
  /\ phase = "prepop" /\ ~failed /\ pc[Main] = "ret"
  /\ IF ret[Main]
     THEN /\ prepop_i' = prepop_i + 1
          /\ Forget(Main)
          /\ UNCHANGED failed
     ELSE /\ failed' = TRUE
          /\ UNCHANGED <<prepop_i, pc, op, ret, out, expRet>>
  /\ UNCHANGED <<doneVars, phase, role, now, start, calls,
                 ninserts_, nreads_, nerases_, rnd, rkey>>

\* Mutant of Prepop's loop bound: the loop stops one key short.
PrepopDoneEarly ==
  /\ phase = "prepop" /\ ~failed /\ pc[Main] = "idle"
  /\ prepop_i >= max_key_ - 1
  /\ phase' = "start"
  /\ UNCHANGED <<callVars, pc, op, out, role, prepop_i, now, start,
                 calls, ninserts_, nreads_, nerases_, failed, rnd, rkey>>

\* Prepop returns: the constructor goes on to StartThreads.
PrepopDone ==
  /\ phase = "prepop" /\ ~failed /\ pc[Main] = "idle"
  /\ prepop_i >= max_key_
  /\ phase' = "start"
  /\ UNCHANGED <<callVars, pc, op, out, role, prepop_i, now, start,
                 calls, ninserts_, nreads_, nerases_, failed, rnd, rkey>>

\* The worker the next env->StartThread creates: writers, then readers, then
\* erasers, in the order of the three StartThreads calls.
NextWorker ==
  CHOOSE t \in Workers :
    pc[t] = "new" /\ \A u \in Workers : pc[u] = "new" => t <= u

\* Mutant of the constructor's order: threads are started although Prepop has
\* not finished.
StartThreadEarly ==
  /\ phase \in {"prepop", "start"} /\ pc[Main] = "idle"
  /\ \E t \in Workers : pc[t] = "new"
  /\ pc' = [pc EXCEPT ![NextWorker] = "born"]
  /\ UNCHANGED <<callVars, op, out, benchVars>>

\* StartThreads: one env->StartThread(fn, this) of its loop.  The thread it
\* creates runs from then on, while the constructor goes on creating others.
StartThread ==
  /\ phase = "start"
  /\ \E t \in Workers : pc[t] = "new"
  /\ pc' = [pc EXCEPT ![NextWorker] = "born"]
  /\ UNCHANGED <<callVars, op, out, benchVars>>

\* The three StartThreads calls have returned: env->WaitForJoin() is entered.
WaitForJoin ==
  /\ phase = "start"
  /\ \A t \in Workers : pc[t] # "new"
  /\ phase' = "join"
  /\ UNCHANGED <<callVars, pc, op, out, role, prepop_i, now, start,
                 calls, ninserts_, nreads_, nerases_, failed, rnd, rkey>>

\* WaitForJoin returns when every worker has exited; the constructor prints
\* the rates.
Joined ==
  /\ phase = "join" /\ \A t \in Workers : pc[t] = "done"
  /\ phase' = "done"
  /\ UNCHANGED <<callVars, pc, op, out, role, prepop_i, now, start,
                 calls, ninserts_, nreads_, nerases_, failed, rnd, rkey>>

\* RunWrite / RunRead / RunErase: uint64_t start = NowInMillSec();
RunBegin(t) ==
  /\ pc[t] = "born"
  /\ start' = [start EXCEPT ![t] = now]
  /\ pc' = [pc EXCEPT ![t] = "idle"]
  /\ UNCHANGED <<callVars, op, out, phase, role, prepop_i, now,
                 calls, ninserts_, nreads_, nerases_, failed, rnd, rkey>>

\* RunWrite: while (!Timedout(start)) impl_->Insert(random() + max_key_, ...)
RunWriteCall(t) ==
  /\ role[t] = "write" /\ pc[t] = "idle" /\ ~failed
  /\ ~Timedout(t) /\ MayCall
  /\ \E r \in RandomDraws : Issue(t, "Insert", UnboundedKey(r), "a")
  /\ calls' = [calls EXCEPT !["Insert"] = @ + 1]
  /\ UNCHANGED <<callVars, phase, role, prepop_i, now, start,
                 ninserts_, nreads_, nerases_, failed, rnd, rkey>>

\* RunWrite: ninserts_++
RunWriteCount(t) ==
  /\ role[t] = "write" /\ pc[t] = "ret" /\ ~failed
  /\ ninserts_' = ninserts_ + 1
  /\ Forget(t)
  /\ UNCHANGED <<doneVars, phase, role, prepop_i, now,
                 start, calls, nreads_, nerases_, failed, rnd, rkey>>

\* RunRead: string s; int k = random() % max_key_; impl_->Lookup(k, &s)
RunReadCall(t) ==
  /\ role[t] = "read" /\ pc[t] = "idle" /\ ~failed
  /\ ~Timedout(t) /\ MayCall
  /\ \E r \in RandomDraws : Issue(t, "Lookup", PrepopKey(r), EmptyStr)
  /\ calls' = [calls EXCEPT !["Lookup"] = @ + 1]
  /\ UNCHANGED <<callVars, phase, role, prepop_i, now, start,
                 ninserts_, nreads_, nerases_, failed, rnd, rkey>>

\* RunRead: assert(status); nreads_++
RunReadCount(t) ==
  /\ role[t] = "read" /\ pc[t] = "ret" /\ ~failed
  /\ IF ret[t]
     THEN /\ nreads_' = nreads_ + 1
          /\ Forget(t)
          /\ UNCHANGED failed
     ELSE /\ failed' = TRUE
          /\ UNCHANGED <<nreads_, pc, op, ret, out, expRet>>
  /\ UNCHANGED <<doneVars, phase, role, prepop_i, now,
                 start, calls, ninserts_, nerases_, rnd, rkey>>

\* Mutant of RunErase's call: the eraser draws its keys as the reader does.
RunEraseCallPrepopKey(t) ==
  /\ role[t] = "erase" /\ pc[t] = "idle" /\ ~failed
  /\ ~Timedout(t) /\ MayCall
  /\ \E r \in RandomDraws : Issue(t, "Erase", PrepopKey(r), EmptyStr)
  /\ calls' = [calls EXCEPT !["Erase"] = @ + 1]
  /\ UNCHANGED <<callVars, phase, role, prepop_i, now, start,
                 ninserts_, nreads_, nerases_, failed, rnd, rkey>>

\* RunErase: while (!Timedout(start)) impl_->Erase(random() + max_key_)
RunEraseCall(t) ==
  /\ role[t] = "erase" /\ pc[t] = "idle" /\ ~failed
  /\ ~Timedout(t) /\ MayCall
  /\ \E r \in RandomDraws : Issue(t, "Erase", UnboundedKey(r), EmptyStr)
  /\ calls' = [calls EXCEPT !["Erase"] = @ + 1]
  /\ UNCHANGED <<callVars, phase, role, prepop_i, now, start,
                 ninserts_, nreads_, nerases_, failed, rnd, rkey>>

\* Mutant of RunErase's count: only an Erase that returned true is counted.
RunEraseCountFound(t) ==
  /\ role[t] = "erase" /\ pc[t] = "ret" /\ ~failed
  /\ nerases_' = IF ret[t] THEN nerases_ + 1 ELSE nerases_
  /\ Forget(t)
  /\ UNCHANGED <<doneVars, phase, role, prepop_i, now,
                 start, calls, ninserts_, nreads_, failed, rnd, rkey>>

\* RunErase: nerases_++
RunEraseCount(t) ==
  /\ role[t] = "erase" /\ pc[t] = "ret" /\ ~failed
  /\ nerases_' = nerases_ + 1
  /\ Forget(t)
  /\ UNCHANGED <<doneVars, phase, role, prepop_i, now,
                 start, calls, ninserts_, nreads_, failed, rnd, rkey>>

\* The loop condition fails: the worker's function returns.
RunExit(t) ==
  /\ pc[t] = "idle" /\ ~failed
  /\ Timedout(t)
  /\ pc' = [pc EXCEPT ![t] = "done"]
  /\ start' = [start EXCEPT ![t] = 0]
  /\ UNCHANGED <<callVars, op, out, phase, role, prepop_i, now, calls,
                 ninserts_, nreads_, nerases_, failed, rnd, rkey>>

\* A worker that has begun its loop and not yet left it.
Running(t) == pc[t] \notin {"new", "born", "done"}

\* Mutant of the clock: it stops once it has advanced past its first reading.
TickOnce ==
  /\ \E t \in Workers : Running(t) /\ ~Timedout(t)
  /\ now <= sec_ * MsPerSec
  /\ \E d \in TickSteps : now' = now + d
  /\ UNCHANGED <<callVars, pc, op, out, phase, role, prepop_i,
                 start, calls, ninserts_, nreads_, nerases_, failed, rnd, rkey>>

\* gettimeofday: the clock advances on its own, by any amount, whatever the
\* threads do.  It is read only by `start = NowInMillSec()` and by Timedout,
\* which sees differences of readings only; the unbounded clock is capped by
\* advancing it while a running worker has not yet seen its deadline.
Tick ==
  /\ \E t \in Workers : Running(t) /\ ~Timedout(t)
  /\ \E d \in TickSteps : now' = now + d
  /\ UNCHANGED <<callVars, pc, op, out, phase, role, prepop_i,
                 start, calls, ninserts_, nreads_, nerases_, failed, rnd, rkey>>

\* gettimeofday reads wall-clock time, which may be set back: a reading can
\* be smaller than an earlier one, at any moment.  The clock is set back to
\* the time of the constructor's start or of a running worker's `start`.
ClockSetBack ==
  /\ \E r \in {0} \cup {start[t] : t \in {u \in Workers : Running(u)}} :
       r < now /\ now' = r
  /\ UNCHANGED <<callVars, pc, op, out, phase, role, prepop_i,
                 start, calls, ninserts_, nreads_, nerases_, failed, rnd, rkey>>

\* main(): a fresh map and a MicroBenchmark over it; nthread_write writers,
\* nthread_read readers and nthread_erase erasers, two threads in all.  The
\* clock shows some time past its origin, so that it can be set back below
\* the `start` of any worker.
BenchInit ==
  /\ impl \in {"simple", "scalable"}
  /\ pc = [t \in Threads |-> IF t \in Workers THEN "new" ELSE "idle"]
  /\ op = [t \in Threads |-> NoOp]
  /\ ret = [t \in Threads |-> FALSE]
  /\ out = [t \in Threads |-> EmptyStr]
  /\ it = [t \in Threads |-> {}]
  /\ rwlock_ = FreeLock
  /\ map_ = {}
  /\ table = EmptyTable
  /\ locks_ = [s \in Shards |-> FreeLock]
  /\ mtx = [t \in Threads |-> 0]
  /\ held = [t \in Threads |-> 0]
  /\ moved = [t \in Threads |-> 0]
  /\ carry = [t \in Threads |-> <<>>]
  /\ snap = {}
  /\ exp = [t \in Threads |-> "none"]
  /\ absmap = [k \in Keys |-> EmptyStr]
  /\ expRet = [t \in Threads |-> FALSE]
  /\ phase = "prepop"
  /\ role \in {f \in [Workers -> Roles] :
                 \A t, u \in Workers :
                   (t < u /\ f[u] = "write") => f[t] = "write"}
  /\ \A t, u \in Workers : (t < u /\ role[t] = "erase") => role[u] = "erase"
  /\ prepop_i = 0
  /\ now = sec_ * MsPerSec
  /\ start = [t \in Workers |-> 0]
  /\ calls = [ty \in OpTypes |-> 0]
  /\ ninserts_ = 0 /\ nreads_ = 0 /\ nerases_ = 0
  /\ failed = FALSE
  /\ rnd = 0 /\ rkey = 0

BenchThreads == {Main} \cup Workers

\* The steps of the constructor, of the workers and of the calls, under a
\* clock that advances.
BenchSteps ==
  \/ PrepopInsert
  \/ PrepopAssert
  \/ PrepopDone
  \/ StartThread
  \/ WaitForJoin
  \/ Joined
  \/ Tick
  \/ \E t \in Workers : RunBegin(t)
  \/ \E t \in Workers : RunWriteCall(t)
  \/ \E t \in Workers : RunWriteCount(t)
  \/ \E t \in Workers : RunReadCall(t)
  \/ \E t \in Workers : RunReadCount(t)
  \/ \E t \in Workers : RunEraseCall(t)
  \/ \E t \in Workers : RunEraseCount(t)
  \/ \E t \in Workers : RunExit(t)
  \/ \E t \in BenchThreads : SimpleInsertLock(t)
  \/ \E t \in BenchThreads : SimpleInsertStore(t)
  \/ \E t \in BenchThreads : SimpleEraseLock(t)
  \/ \E t \in BenchThreads : SimpleEraseFind(t)
  \/ \E t \in BenchThreads : SimpleEraseIt(t)
  \/ \E t \in BenchThreads : SimpleLookupLock(t)
  \/ \E t \in BenchThreads : SimpleLookupFind(t)
  \/ \E t \in BenchThreads : ScalInsertLock(t)
  \/ \E t \in BenchThreads : ScalInsertBody(t)
  \/ \E t \in BenchThreads : ResizeLock(t)
  \/ \E t \in BenchThreads : ResizeDetach(t)
  \/ \E t \in BenchThreads : ResizeRehome(t)
  \/ \E t \in BenchThreads : ResizeEnd(t)
  \/ \E t \in BenchThreads : ScalEraseLock(t)
  \/ \E t \in BenchThreads : ScalEraseBody(t)
  \/ \E t \in BenchThreads : ScalLookupGetMutex(t)
  \/ \E t \in BenchThreads : ScalLookupLock(t)
  \/ \E t \in BenchThreads : ScalLookupFind(t)

BenchNext == BenchSteps \/ ClockSetBack

BenchSpec == BenchInit /\ [][BenchNext]_vars

\* The benchmark under a clock that is never set back and a fair scheduler:
\* while the clock can advance or some thread can take a step, a lock
\* acquisition included, a step is eventually taken.
BenchLive == BenchInit /\ [][BenchSteps]_vars /\ WF_vars(BenchSteps)

\* ------------------------------------------------------------- properties
Writer(t) == op[t].type \in {"Insert", "Erase"}
\* Thread t is inside its critical section on SimpleHashMap::rwlock_.
InSimpleCS(t) == impl = "simple" /\ pc[t] \in {"cs", "cs2"}
\* Thread t is inside a critical section on the lock of shard s.
InShardCS(t, s) ==
  /\ impl = "scalable"
  /\ \/ pc[t] = "cs" /\ mtx[t] = s
     \/ pc[t] \in {"rz", "rh"} /\ s < held[t]
\* Thread t's step ends the body of its call of type ty (the call returns).
Finishes(t, ty) ==
  op[t].type = ty /\ pc[t] \in {"cs", "cs2"} /\ pc'[t] \in {"ret", "rz"}

\* C1: read-after-write.  A Lookup(k, &out) called when an Insert has left v
\* stored under k and has returned, with no Erase(k) on its way or called
\* while the Lookup runs, returns true and leaves out equal to v.
C1_ReadAfterWrite ==
  \A t \in Threads :
    (pc[t] = "ret" /\ op[t].type = "Lookup" /\ exp[t] \in Values)
      => (ret[t] /\ out[t] = exp[t])

\* C2: duplicate-key policy.  An Insert(k, b) that runs when k holds a and no
\* other call on k is in progress ends in exactly one of: a still stored and
\* false returned, or b stored and true returned.
C2_DuplicatePolicy ==
  [][\A t \in Threads :
       LET k == op[t].key IN
       (/\ Finishes(t, "Insert")
        /\ Cardinality(Stored(k)) = 1
        /\ \A u \in Threads \ {t} : pc[u] = "idle" \/ op[u].key # k)
         => LET a == CHOOSE v \in Stored(k) : TRUE
                b == op[t].val
            IN (Stored(k)' = {a} /\ ret'[t] = FALSE)
                 # (Stored(k)' = {b} /\ ret'[t] = TRUE)]_vars

\* C3: key uniqueness.  In every reachable state either map holds at most one
\* entry per key.
C3_KeyUnique ==
  LET live == Live IN \A k \in KeysOf(impl) : CountOf(live, k) <= 1
\* Two Inserts of one key with different values have returned, and one entry
\* holds the key.
C3_Witness ==
  \E t1, t2 \in Threads :
    /\ pc[t1] = "ret" /\ pc[t2] = "ret"
    /\ op[t1].type = "Insert" /\ op[t2].type = "Insert"
    /\ op[t1].key = op[t2].key /\ op[t1].val # op[t2].val
    /\ KeyCount(op[t1].key) = 1

\* C4: no lost update per key.  When the Inserts of k that were called while k
\* was absent, and so ran concurrently, have all returned, exactly one entry
\* holds k and its value is one of theirs; and at all times the stored values
\* and the returned results are those of a sequential map to which the calls
\* are applied in the order they took the guarding lock.
FreshInserts(k) ==
  {t \in Threads : op[t].type = "Insert" /\ op[t].key = k /\ exp[t] = "fresh"}
C4_NoLostUpdate ==
  LET live == Live IN
  /\ \A k \in KeysOf(impl) :
       (FreshInserts(k) # {} /\ \A t \in FreshInserts(k) : pc[t] = "ret")
         => /\ CountOf(live, k) = 1
            /\ ValsOf(live, k) \subseteq {op[t].val : t \in FreshInserts(k)}
  /\ \A k \in KeysOf(impl) :
       (~\E t \in Threads : Writer(t) /\ op[t].key = k /\ pc[t] \in {"cs", "cs2"})
         => /\ CountOf(live, k) = (IF absmap[k] = EmptyStr THEN 0 ELSE 1)
            /\ ValsOf(live, k) = (IF absmap[k] = EmptyStr THEN {} ELSE {absmap[k]})
  /\ \A t \in Threads : pc[t] \in {"ret", "rz", "rh"} => ret[t] = expRet[t]
\* Two Inserts of an absent key with different values ran concurrently and
\* both have returned.
C4_Witness ==
  \E t1, t2 \in Threads :
    /\ t1 # t2 /\ pc[t1] = "ret" /\ pc[t2] = "ret"
    /\ {t1, t2} \subseteq FreshInserts(op[t1].key)
    /\ op[t1].val # op[t2].val
    /\ Stored(op[t1].key) = {op[t1].val}

\* C5: reader-writer exclusion.  No Insert or Erase is inside its critical
\* section on a lock while a Lookup or another Insert or Erase is inside its
\* critical section on the same lock.
C5_Exclusion ==
  \A t1 \in ThreadsOf(impl) :
    Writer(t1) =>
      \A t2 \in ThreadsOf(impl) \ {t1} :
        /\ ~(InSimpleCS(t1) /\ InSimpleCS(t2))
        /\ \A s \in Shards : ~(InShardCS(t1, s) /\ InShardCS(t2, s))
\* Two Lookups are inside their critical sections on the same lock at once.
C5_Witness ==
  \E t1, t2 \in Threads :
    /\ t1 # t2
    /\ op[t1].type = "Lookup" /\ op[t2].type = "Lookup"
    /\ \/ InSimpleCS(t1) /\ InSimpleCS(t2)
       \/ \E s \in Shards : InShardCS(t1, s) /\ InShardCS(t2, s)

\* The observable pairs with key k removed.
Without(k) == {p \in Observable : p[1] # k}

\* C6: Erase of an absent key.  Every step of an Erase whose key is absent
\* leaves the live keys, their values and the live-entry count as they were,
\* and the step that ends it returns false.
C6_EraseAbsent ==
  [][\A t \in Threads :
       (/\ op[t].type = "Erase" /\ pc[t] \in {"wait", "cs"} /\ pc'[t] # pc[t]
        /\ KeyCount(op[t].key) = 0)
         => /\ Observable' = Observable
            /\ LiveCount' = LiveCount
            /\ pc[t] = "cs" => (pc'[t] = "ret" /\ ret'[t] = FALSE)]_vars
\* An Erase has returned false while the map holds entries.
C6_Witness ==
  \E t \in Threads :
    /\ pc[t] = "ret" /\ op[t].type = "Erase" /\ ~ret[t]
    /\ KeyCount(op[t].key) = 0 /\ LiveCount > 0

\* C7: Erase of a present key.  The step that ends an Erase returns true
\* exactly when the key was present, and then removes that key's entry and
\* no other; and a Lookup called while the key is absent, with no Insert of
\* the key on its way or called meanwhile, returns false.
C7_ErasePresent ==
  [][\A t \in Threads :
       LET k == op[t].key IN
       /\ Finishes(t, "Erase")
            => /\ ret'[t] = (KeyCount(k) > 0)
               /\ KeyCount(k)' = 0
               /\ Observable' = Without(k)
               /\ LiveCount' = LiveCount - (IF KeyCount(k) > 0 THEN 1 ELSE 0)
       /\ (Finishes(t, "Lookup") /\ exp[t] = "absent") => ret'[t] = FALSE]_vars
\* An Erase has returned true, a Lookup of its key called after it has
\* returned false, and another key is still stored.
C7_Witness ==
  \E t1, t2 \in Threads :
    /\ pc[t1] = "ret" /\ op[t1].type = "Erase" /\ ret[t1]
    /\ pc[t2] = "ret" /\ op[t2].type = "Lookup" /\ op[t2].key = op[t1].key
    /\ exp[t2] = "absent" /\ ~ret[t2]
    /\ LiveCount > 0

\* C8: the baseline's duplicate insert.  SimpleHashMap::Insert of a key the
\* map holds returns true and leaves that key's value, every other entry and
\* the number of entries unchanged.
C8_SimpleDuplicateInsert ==
  [][\A t \in Threads :
       (impl = "simple" /\ Finishes(t, "Insert") /\ KeyCount(op[t].key) > 0)
         => /\ ret'[t] = TRUE
            /\ Observable' = Observable
            /\ LiveCount' = LiveCount]_vars
\* A SimpleHashMap::Insert of a held key with another value has returned; the
\* map holds two entries.
C8_Witness ==
  \E t \in Threads :
    /\ impl = "simple" /\ pc[t] = "ret" /\ op[t].type = "Insert" /\ ret[t]
    /\ Stored(op[t].key) # {} /\ op[t].val \notin Stored(op[t].key)
    /\ LiveCount = 2

\* Every entry sits in the shard and the slot its hash selects.
Placed ==
  \A s \in Shards : \A j \in 1..Len(table[s].slots) :
    \A i \in 1..Len(table[s].slots[j]) :
      LET e == table[s].slots[j][i] IN
      ShardOf(e.hash) = s /\ SlotOf(e.hash, Len(table[s].slots)) = j

\* C9: resize preserves the observable key set.  When a resize that rehashed
\* the table ends, the keys a Lookup finds and their values are those it found
\* when the rehash began, every one of them is held by exactly one entry, no
\* entry is left unlinked, and the live count is the number of keys found.
C9_ResizePreserves ==
  [][\A t \in Threads :
       (pc[t] = "rz" /\ pc'[t] = "ret" /\ moved[t] = NShards)
         => /\ Observable' = snap
            /\ \A k \in Keys :
                 KeyCount(k)' = Cardinality({p \in snap : p[1] = k})
            /\ carry'[t] = <<>>
            /\ LiveCount' = Cardinality(snap)]_vars
\* The table has been resized and two keys of one shard, which shared a chain
\* before, are found in different slots.
C9_Witness ==
  /\ impl = "scalable"
  /\ \A t \in Threads : pc[t] \notin {"rz", "rh"}
  /\ Len(table[0].slots) = 2
  /\ Len(table[0].slots[1]) = 1 /\ Len(table[0].slots[2]) = 1
  /\ {p[1] : p \in Observable} = {0, 2}

\* C10: resize under concurrency.  A Lookup finds its key whenever an entry
\* holds it, also while a resize is in progress; every linked entry sits
\* where its hash places it; and an Insert or Erase is inside its critical
\* section only on the shard that owns its key and only while no resize holds
\* that shard's lock.
C10_ResizeConcurrent ==
  [][/\ \A t \in Threads :
          (impl = "scalable" /\ Finishes(t, "Lookup"))
            => ret'[t] = (KeyCount(op[t].key) > 0)
     /\ Placed'
     /\ \A t \in Threads :
          (impl' = "scalable" /\ pc'[t] = "cs" /\ Writer(t)')
            => /\ mtx'[t] = ShardOf(Hash(op'[t].key))
               /\ \A u \in Threads \ {t} :
                    pc'[u] \in {"rz", "rh"} => held'[u] <= mtx'[t]]_vars
\* A Lookup has found its key while a resize, with a shard lock in hand, is
\* still in progress.
C10_Witness ==
  \E t, u \in Threads :
    /\ impl = "scalable" /\ t # u
    /\ pc[u] = "rz" /\ held[u] >= 1
    /\ pc[t] = "ret" /\ op[t].type = "Lookup" /\ ret[t]

\* ------------------------------------------- properties of the benchmark
\* C11 as stated: in a run against ScalableHashMap no thread ever invokes the
\* table's lock-handle operation GetMutex.
C11_GetMutexNeverInvoked ==
  impl = "scalable" => \A t \in BenchThreads : pc[t] # "lk"
\* C11, amended: GetMutex is invoked by ScalableHashMap::Lookup and by nothing
\* else; every Lookup invokes it once, on its own key, before Find, and runs
\* Find holding the mutex it got in read mode.
C11_GetMutexInLookup ==
  [][\A t \in BenchThreads :
       /\ (pc[t] # "lk" /\ pc'[t] = "lk")
            => /\ impl = "scalable" /\ op[t].type = "Lookup" /\ pc[t] = "wait"
               /\ mtx'[t] = ShardOf(Hash(op[t].key))
       /\ (impl = "scalable" /\ op[t].type = "Lookup"
              /\ pc[t] # "cs" /\ pc'[t] = "cs")
            => /\ pc[t] = "lk"
               /\ t \in locks_'[mtx[t]].r]_vars
\* A reader thread runs Find on the scalable map, on a key of the second
\* shard, inside the read lock of the mutex GetMutex gave it.
C11_Witness ==
  /\ impl = "scalable"
  /\ \E t \in Workers :
       /\ role[t] = "read" /\ pc[t] = "cs" /\ op[t].type = "Lookup"
       /\ mtx[t] = 1 /\ t \in locks_[1].r

\* C12: the reader assertion never fails.  Whatever the writers and erasers
\* do meanwhile, every Lookup that RunRead issues returns true, so that no
\* assert of the concurrent phase fails.
C12_ReaderAssert ==
  /\ \A t \in Workers : (role[t] = "read" /\ pc[t] = "ret") => ret[t]
  /\ phase \in {"start", "join", "done"} => ~failed
\* A reader's Lookup has returned true after the Insert or Erase of the other
\* worker was counted.
C12_Witness ==
  \E t \in Workers :
    /\ role[t] = "read" /\ pc[t] = "ret" /\ ret[t]
    /\ ninserts_ + nerases_ = MaxCalls - 1

\* The keys Prepop inserts.
PrepopKeys == {ToInt(i) : i \in 0..(max_key_ - 1)}
\* C13: writer and eraser keys never hit the pre-populated range.  For every
\* value random() can return, the key random() + max_key_, converted to Key
\* with wrap-around, is a Key outside [0, max_key_) and none of the keys that
\* Prepop inserts.
C13_UnboundedKeyOutside ==
  phase = "unbounded"
    => /\ -(2^(IntBits - 1)) <= rkey /\ rkey < 2^(IntBits - 1)
       /\ (rkey - (rnd + max_key_)) % 2^IntBits = 0
       /\ ~(0 <= rkey /\ rkey < max_key_)
       /\ rkey \notin PrepopKeys
\* The sum exceeded the largest Key and the conversion wrapped it to a
\* negative key.
C13_Witness ==
  /\ phase = "unbounded"
  /\ rnd + max_key_ > RAND_MAX
  /\ rkey < 0

\* What a Lookup of key k returns when it runs now: map_.find(key) !=
\* map_.end(), or impl_.Find(n, nullptr).
LookupOf(k) ==
  IF impl = "simple" THEN MapFind(map_, k) # {} ELSE TableFind(table, k)
\* C14: pre-population of an empty map.  Each Insert of Prepop returns true,
\* so its assert never fails; once Prepop has finished, and before a worker
\* has run, a Lookup returns true for every key of [0, max_key_) and false for
\* max_key_; the pre-populated keys stay in the map from then on.
C14_Prepop ==
  /\ (phase = "prepop" /\ pc[Main] = "ret") => ret[Main]
  /\ phase \in {"prepop", "start"} => ~failed
  /\ phase = "prepop" => \A i \in 0..(prepop_i - 1) : KeyCount(ToInt(i)) = 1
  /\ (phase = "start" /\ \A t \in Workers : pc[t] = "new")
       => /\ prepop_i = max_key_
          /\ \A k \in PrepopKeys : LookupOf(k)
          /\ ~LookupOf(ToInt(max_key_))
          /\ LiveCount = max_key_
  /\ phase \in {"start", "join", "done"}
       => \A k \in PrepopKeys : KeyCount(k) = 1
\* Prepop has finished on the scalable map: its last Insert returned true and
\* every key of the range is found.
C14_Witness ==
  /\ impl = "scalable" /\ phase = "start"
  /\ \A t \in Workers : pc[t] = "new"
  /\ \A k \in PrepopKeys : LookupOf(k)
  /\ ~LookupOf(ToInt(max_key_))

\* C15: phase ordering.  While Prepop runs no worker thread exists; a worker
\* exists only after Prepop has returned, and when a worker is created and
\* whenever it issues a call every key of [0, max_key_) is in the map.
C15_PhaseOrder ==
  [][/\ phase' = "prepop"
          => \A t \in Workers : pc'[t] = "new" /\ op'[t] = NoOp
     /\ \A t \in Workers :
          pc'[t] # "new"
            => /\ phase' \in {"start", "join", "done"}
               /\ prepop_i = max_key_
               /\ pc[Main] = "idle" /\ op[Main] = NoOp
     /\ \A t \in Workers :
          \/ pc[t] = "new" /\ pc'[t] # "new"
          \/ pc[t] = "idle" /\ pc'[t] = "wait"
          => \A k \in PrepopKeys : KeyCount(k) = 1]_vars
\* A worker is inside a call while the constructor, Prepop done, has not yet
\* created the other worker.
C15_Witness ==
  /\ phase = "start"
  /\ prepop_i = max_key_
  /\ \E t, u \in Workers : pc[t] = "cs" /\ pc[u] = "new"

\* C16: harness termination.  Under a clock that advances and a fair
\* scheduler every started worker eventually exits, and the run completes
\* with WaitForJoin returned; a worker issues a call only when its Timedout
\* check was false, and exits only from the head of its loop, after its check
\* was true and with no call in flight.
C16_Termination ==
  /\ <>(phase = "done" /\ \A t \in Workers : pc[t] = "done")
  /\ [][\A t \in Workers :
          /\ (pc[t] = "idle" /\ pc'[t] = "wait") => ~Timedout(t)
          /\ (pc[t] # "done" /\ pc'[t] = "done")
               => pc[t] = "idle" /\ op[t] = NoOp /\ Timedout(t)
          /\ pc[t] = "done" => pc'[t] = "done"]_vars
\* The run has completed after the workers issued as many calls as the bound
\* allows and the clock passed the deadline.
C16_Witness ==
  /\ phase = "done"
  /\ \A t \in Workers : pc[t] = "done"
  /\ now > sec_ * MsPerSec
  /\ ~MayCall

\* The number of locks thread t holds, in either mode.
LocksHeld(t) ==
  Cardinality({s \in Shards : t \in locks_[s].w \cup locks_[s].r})
    + (IF t \in rwlock_.w \cup rwlock_.r THEN 1 ELSE 0)
\* C17: steady-state deadlock freedom.  Outside a resize a thread holds at
\* most one lock; it holds none unless it is inside the critical section of a
\* call, so every return path has released the lock; and in every state
\* before the end of the run some thread or the clock can take a step.
C17_NoDeadlock ==
  /\ \A t \in BenchThreads :
       /\ pc[t] \notin {"rz", "rh"} => LocksHeld(t) <= 1
       /\ pc[t] \notin {"cs", "cs2", "rz", "rh"} => LocksHeld(t) = 0
  /\ phase # "done" => ENABLED BenchNext
\* An Erase of an absent key has returned false on the baseline map, its lock
\* released, and another worker is inside its critical section.
C17_Witness ==
  /\ impl = "simple"
  /\ \E t, u \in Workers :
       /\ op[t].type = "Erase" /\ pc[t] = "ret" /\ ~ret[t]
       /\ LocksHeld(t) = 0
       /\ pc[u] = "cs" /\ LocksHeld(u) = 1

\* The calls of the workers of role r that are issued and not yet counted.
InFlight(r) ==
  Cardinality({t \in Workers : role[t] = r /\ pc[t] \in {"wait", "lk", "cs", "cs2", "rz", "rh", "ret"}})
\* C18: the throughput counters lose no increment.  Each counter equals the
\* calls of its kind that the workers issued, less those still in flight, so
\* that once all workers have joined it equals the calls issued, whatever they
\* returned; the Inserts of Prepop are not counted.
C18_Counters ==
  /\ ninserts_ + InFlight("write") = calls["Insert"]
  /\ nreads_ + InFlight("read") = calls["Lookup"]
  /\ nerases_ + InFlight("erase") = calls["Erase"]
  /\ (phase = "prepop" \/ \A t \in Workers : pc[t] = "new")
       => ninserts_ = 0 /\ nreads_ = 0 /\ nerases_ = 0
  /\ phase = "done"
       => /\ ninserts_ = calls["Insert"]
          /\ nreads_ = calls["Lookup"]
          /\ nerases_ = calls["Erase"]
\* All workers have joined after one Insert and one Erase; the inserted key
\* is still in the map, so the Erase found no key and returned false; both
\* calls are counted.
C18_Witness ==
  /\ phase = "done"
  /\ ninserts_ = 1 /\ calls["Insert"] = 1
  /\ nerases_ = 1 /\ calls["Erase"] = 1
  /\ \E r \in RandomDraws : KeyCount(UnboundedKey(r)) = 1

==============================================================================
